---- MODULE Spec2Model ----
(***************************************************************************)
(* Model of roslibrust's ROS1 connection-header codec                      *)
(* (roslibrust/src/ros1/tcpros.rs: ConnectionHeader::to_bytes, from_bytes, *)
(* parse, parse_header_field) and of the package lookup of src/util.rs     *)
(* (find_package_from_path).                                               *)
(*                                                                         *)
(* Bytes are naturals 0..255, texts are byte sequences (their UTF-8        *)
(* encoding), a slice of the input buffer is an offset into it.  A u32 is  *)
(* kept as two 16-bit halves [hi, lo] so that every length a peer can put  *)
(* on the wire (up to FF FF FF FF) is represented exactly.                 *)
(***************************************************************************)
EXTENDS Naturals, Sequences, FiniteSets, TLC

VARIABLES
    src,            \* what the caller handed over: a header to encode, or wire bytes
    header_data,    \* the byte buffer (to_bytes' output / from_bytes' argument)
    input,          \* parse: offset of the slice `input` in header_data
    len,            \* parse: the outer remaining-length counter (u32)
    header,         \* parse: the ConnectionHeader being filled
    pc,             \* position of the codec call
    result,         \* what from_bytes returned
    e,              \* find_package_from_path: the path (absolute flag, components)
    marked,         \* ancestors (by number of components) holding package.xml
    anc,            \* for-loop: ancestors of e not visited yet
    package_name,   \* for-loop: Option<String>
    upc,            \* position of the util call
    uresult         \* what find_package_from_path returned

codec_vars == <<src, header_data, input, len, header, pc, result>>
util_vars == <<e, marked, anc, package_name, upc, uresult>>
vars == <<src, header_data, input, len, header, pc, result,
          e, marked, anc, package_name, upc, uresult>>

----------------------------------------------------------------------------
(* Bytes and names *)

EQ == 61
ZeroChar == 48
OneChar == 49

NameCallerId == <<99, 97, 108, 108, 101, 114, 105, 100>>
NameMsgDef == <<109, 101, 115, 115, 97, 103, 101, 95, 100, 101, 102, 105, 110, 105, 116, 105, 111, 110>>
NameMd5 == <<109, 100, 53, 115, 117, 109>>
NameTopic == <<116, 111, 112, 105, 99>>
NameType == <<116, 121, 112, 101>>
NameLatching == <<108, 97, 116, 99, 104, 105, 110, 103>>
NameNoDelay == <<116, 99, 112, 95, 110, 111, 100, 101, 108, 97, 121>>

(* ConnectionHeader::default() *)
DefaultHeader ==
    [caller_id |-> <<>>, latching |-> FALSE, msg_definition |-> <<>>,
     md5sum |-> <<>>, topic |-> <<>>, topic_type |-> <<>>, tcp_nodelay |-> FALSE]

----------------------------------------------------------------------------
(* u32 arithmetic *)

Half == 256 * 256

(* `n as u32` for a usize n *)
AsU32(n) == [hi |-> (n \div Half) % Half, lo |-> n % Half]

U32Zero == [hi |-> 0, lo |-> 0]

U32Geq(a, b) == a.hi > b.hi \/ (a.hi = b.hi /\ a.lo >= b.lo)

(* a subtraction that saturates at 0 instead of reporting the underflow *)
SaturatingSub(a, b) ==
    IF a.hi > b.hi \/ (a.hi = b.hi /\ a.lo >= b.lo)
    THEN [some |-> TRUE,
          val |-> IF a.lo >= b.lo
                  THEN [hi |-> a.hi - b.hi, lo |-> a.lo - b.lo]
                  ELSE [hi |-> a.hi - b.hi - 1, lo |-> a.lo + Half - b.lo]]
    ELSE [some |-> TRUE, val |-> [hi |-> 0, lo |-> 0]]

(* u32::checked_sub *)
CheckedSub(a, b) ==
    IF U32Geq(a, b)
    THEN [some |-> TRUE,
          val |-> IF a.lo >= b.lo
                  THEN [hi |-> a.hi - b.hi, lo |-> a.lo - b.lo]
                  ELSE [hi |-> a.hi - b.hi - 1, lo |-> a.lo + Half - b.lo]]
    ELSE [some |-> FALSE, val |-> U32Zero]

(* a + 1 on u32: overflows at u32::MAX *)
AddOne(a) ==
    IF a.lo + 1 < Half THEN [over |-> FALSE, val |-> [hi |-> a.hi, lo |-> a.lo + 1]]
    ELSE IF a.hi + 1 < Half THEN [over |-> FALSE, val |-> [hi |-> a.hi + 1, lo |-> 0]]
    ELSE [over |-> TRUE, val |-> U32Zero]

(* u32::to_le_bytes / write_u32::<LittleEndian> *)
ToLeBytes(a) == <<a.lo % 256, a.lo \div 256, a.hi % 256, a.hi \div 256>>

----------------------------------------------------------------------------
(* The parser primitives, on the buffer b and the offset p of the slice *)

Remaining(b, p) == Len(b) - p

(* nom::number::complete::le_u32 *)
LeU32(b, p) ==
    IF Remaining(b, p) < 4
    THEN [ok |-> FALSE, code |-> "Eof", pos |-> p, val |-> U32Zero]
    ELSE [ok |-> TRUE, code |-> "", pos |-> p + 4,
          val |-> [hi |-> b[p + 3] + 256 * b[p + 4], lo |-> b[p + 1] + 256 * b[p + 2]]]

(* a take_until that stops at the last '=' instead of the first *)
TakeUntilLastEq(b, p) ==
    LET hits == {i \in (p + 1)..Len(b) : b[i] = EQ} IN
    IF hits = {}
    THEN [ok |-> FALSE, code |-> "TakeUntil", pos |-> p, val |-> <<>>]
    ELSE LET i == CHOOSE j \in hits : \A k \in hits : j >= k IN
         [ok |-> TRUE, code |-> "", pos |-> i - 1, val |-> SubSeq(b, p + 1, i - 1)]

(* nom::bytes::complete::take_until("="): the bytes before the first '=' *)
TakeUntilEq(b, p) ==
    LET hits == {i \in (p + 1)..Len(b) : b[i] = EQ} IN
    IF hits = {}
    THEN [ok |-> FALSE, code |-> "TakeUntil", pos |-> p, val |-> <<>>]
    ELSE LET i == CHOOSE j \in hits : \A k \in hits : j <= k IN
         [ok |-> TRUE, code |-> "", pos |-> i - 1, val |-> SubSeq(b, p + 1, i - 1)]

(* count <= n, for a usize n and a u32 count *)
Fits(count, n) ==
    \/ n \div Half > count.hi
    \/ n \div Half = count.hi /\ n % Half >= count.lo

(* a take that trusts a 16-bit count without looking at the buffer's end *)
TakeUnchecked(b, p, count) ==
    IF count.hi = 0
    THEN [ok |-> TRUE, code |-> "", pos |-> p + count.lo,
          val |-> [i \in 1..count.lo |-> IF p + i <= Len(b) THEN b[p + i] ELSE 0]]
    ELSE [ok |-> FALSE, code |-> "Eof", pos |-> p, val |-> <<>>]

(* nom::bytes::complete::take(count), count a u32 *)
Take(b, p, count) ==
    IF Fits(count, Remaining(b, p))
    THEN LET n == count.hi * Half + count.lo IN
         [ok |-> TRUE, code |-> "", pos |-> p + n, val |-> SubSeq(b, p + 1, p + n)]
    ELSE [ok |-> FALSE, code |-> "Eof", pos |-> p, val |-> <<>>]

(* std::str::from_utf8(..).is_ok() *)
IsCont(x) == x >= 128 /\ x <= 191

RECURSIVE Utf8From(_, _)
Utf8From(s, i) ==
    IF i > Len(s) THEN TRUE
    ELSE LET x == s[i] IN
         IF x < 128 THEN Utf8From(s, i + 1)
         ELSE IF x >= 194 /\ x <= 223
         THEN i + 1 <= Len(s) /\ IsCont(s[i + 1]) /\ Utf8From(s, i + 2)
         ELSE IF x >= 224 /\ x <= 239
         THEN /\ i + 2 <= Len(s)
              /\ \/ x = 224 /\ s[i + 1] >= 160 /\ s[i + 1] <= 191
                 \/ x >= 225 /\ x <= 236 /\ IsCont(s[i + 1])
                 \/ x = 237 /\ s[i + 1] >= 128 /\ s[i + 1] <= 159
                 \/ x >= 238 /\ IsCont(s[i + 1])
              /\ IsCont(s[i + 2])
              /\ Utf8From(s, i + 3)
         ELSE IF x >= 240 /\ x <= 244
         THEN /\ i + 3 <= Len(s)
              /\ \/ x = 240 /\ s[i + 1] >= 144 /\ s[i + 1] <= 191
                 \/ x >= 241 /\ x <= 243 /\ IsCont(s[i + 1])
                 \/ x = 244 /\ s[i + 1] >= 128 /\ s[i + 1] <= 143
              /\ IsCont(s[i + 2])
              /\ IsCont(s[i + 3])
              /\ Utf8From(s, i + 4)
         ELSE FALSE

(* a validation that lets every byte sequence through (a lossy conversion) *)
FromUtf8Lossy(s) == Len(s) >= 0

FromUtf8Ok(s) == Utf8From(s, 1)

----------------------------------------------------------------------------
(* ConnectionHeader::parse_header_field *)

FieldErr(code, p) == [kind |-> "err", code |-> code, pos |-> p, key |-> <<>>, value |-> <<>>]

ParseHeaderField(b, p) ==
    LET l == LeU32(b, p) IN
    IF ~l.ok THEN FieldErr(l.code, l.pos)
    ELSE
    LET name == TakeUntilEq(b, l.pos) IN
    IF ~name.ok THEN FieldErr(name.code, name.pos)
    ELSE
    LET eq == Take(b, name.pos, AsU32(1)) IN
    IF ~eq.ok THEN FieldErr(eq.code, eq.pos)
    ELSE
    LET need == AddOne(AsU32(Len(name.val))) IN
    IF need.over
    THEN [kind |-> "panic", code |-> "overflow", pos |-> eq.pos, key |-> <<>>, value |-> <<>>]
    ELSE
    LET remaining_len == CheckedSub(l.val, need.val) IN
    IF ~remaining_len.some THEN FieldErr("LengthValue", eq.pos)
    ELSE
    LET value == Take(b, eq.pos, remaining_len.val) IN
    IF ~value.ok THEN FieldErr(value.code, value.pos)
    ELSE IF ~FromUtf8Ok(name.val) THEN FieldErr("AlphaNumeric", value.pos)
    ELSE IF ~FromUtf8Ok(value.val) THEN FieldErr("AlphaNumeric", value.pos)
    ELSE [kind |-> "ok", code |-> "", pos |-> value.pos, key |-> name.val, value |-> value.val]

(* a boolean decode that takes only "1" for true *)
StrictBool(value) == value = <<OneChar>>

(* `value != "0"` of the match on key of ConnectionHeader::parse *)
BoolOf(value) == value # <<ZeroChar>>

(* a match on key that ignores the case of the name and keeps the first *)
(* value of a text field                                                *)
Lower(key) == [i \in 1..Len(key) |-> IF key[i] >= 65 /\ key[i] <= 90 THEN key[i] + 32 ELSE key[i]]

DispatchLoose(h, key, value) ==
    IF Lower(key) = NameCallerId THEN [h EXCEPT !.caller_id = IF @ = <<>> THEN value ELSE @]
    ELSE IF Lower(key) = NameMsgDef THEN [h EXCEPT !.msg_definition = IF @ = <<>> THEN value ELSE @]
    ELSE IF Lower(key) = NameMd5 THEN [h EXCEPT !.md5sum = IF @ = <<>> THEN value ELSE @]
    ELSE IF Lower(key) = NameTopic THEN [h EXCEPT !.topic = IF @ = <<>> THEN value ELSE @]
    ELSE IF Lower(key) = NameType THEN [h EXCEPT !.topic_type = IF @ = <<>> THEN value ELSE @]
    ELSE IF Lower(key) = NameLatching THEN [h EXCEPT !.latching = value # <<ZeroChar>>]
    ELSE IF Lower(key) = NameNoDelay THEN [h EXCEPT !.tcp_nodelay = value # <<ZeroChar>>]
    ELSE h

(* the match on key of ConnectionHeader::parse *)
Dispatch(h, key, value) ==
    IF key = NameCallerId THEN [h EXCEPT !.caller_id = value]
    ELSE IF key = NameMsgDef THEN [h EXCEPT !.msg_definition = value]
    ELSE IF key = NameMd5 THEN [h EXCEPT !.md5sum = value]
    ELSE IF key = NameTopic THEN [h EXCEPT !.topic = value]
    ELSE IF key = NameType THEN [h EXCEPT !.topic_type = value]
    ELSE IF key = NameLatching THEN [h EXCEPT !.latching = BoolOf(value)]
    ELSE IF key = NameNoDelay THEN [h EXCEPT !.tcp_nodelay = BoolOf(value)]
    ELSE h

(* a loop body that does not check the counter: it stops at 0 on an overrun *)
LoopBodyUnchecked(b, inp, l, h) ==
    LET f == ParseHeaderField(b, inp) IN
    IF f.kind # "ok"
    THEN [kind |-> f.kind, code |-> f.code, input |-> f.pos, len |-> l, header |-> h]
    ELSE [kind |-> "cont", code |-> "", input |-> f.pos,
          len |-> SaturatingSub(l, AsU32(f.pos - inp)).val,
          header |-> Dispatch(h, f.key, f.value)]

(* one iteration of the while loop of ConnectionHeader::parse, from the slice *)
(* at offset inp with the counter l and the header h                          *)
LoopBody(b, inp, l, h) ==
    LET f == ParseHeaderField(b, inp) IN
    IF f.kind # "ok"
    THEN [kind |-> f.kind, code |-> f.code, input |-> f.pos, len |-> l, header |-> h]
    ELSE
    LET diff == Remaining(b, inp) - Remaining(b, f.pos)
        shorter == CheckedSub(l, AsU32(diff))
    IN  IF ~shorter.some
        THEN [kind |-> "err", code |-> "Count", input |-> inp, len |-> l,
              header |-> Dispatch(h, f.key, f.value)]
        ELSE [kind |-> "cont", code |-> "", input |-> f.pos, len |-> shorter.val,
              header |-> Dispatch(h, f.key, f.value)]

(* what from_bytes hands back: Ok(header), or the io::Error built from the *)
(* parser's error code and the offset of its error input                    *)
Ok(h) == [kind |-> "ok", code |-> "", at |-> 0, header |-> h]
Err(code, at) == [kind |-> "err", code |-> code, at |-> at, header |-> DefaultHeader]
Panic(at) == [kind |-> "panic", code |-> "overflow", at |-> at, header |-> DefaultHeader]
NoResult == [kind |-> "none", code |-> "", at |-> 0, header |-> DefaultHeader]

Outcome(step) ==
    IF step.kind = "panic" THEN Panic(step.input) ELSE Err(step.code, step.input)

RECURSIVE ParseLoop(_, _, _, _)
ParseLoop(b, inp, l, h) ==
    IF l = U32Zero THEN Ok(h)
    ELSE LET step == LoopBody(b, inp, l, h) IN
         IF step.kind = "cont" THEN ParseLoop(b, step.input, step.len, step.header)
         ELSE Outcome(step)

(* ConnectionHeader::from_bytes, as a function of the buffer *)
FromBytes(b) ==
    LET l == LeU32(b, 0) IN
    IF ~l.ok THEN Err(l.code, l.pos) ELSE ParseLoop(b, l.pos, l.val, DefaultHeader)

----------------------------------------------------------------------------
(* ConnectionHeader::to_bytes *)

WriteU32(data, n) == data \o ToLeBytes(n)

(* write_u32(str.len() as u32) then write(str.as_bytes()) *)
WriteField(data, str) == WriteU32(data, AsU32(Len(str))) \o str

FormatBool(x) == IF x THEN <<OneChar>> ELSE <<ZeroChar>>

(* a to_bytes that emits topic before tcp_nodelay *)
ToBytesReordered(h, to_publisher) ==
    LET d0 == WriteU32(<<>>, U32Zero)
        d1 == WriteField(d0, NameCallerId \o <<EQ>> \o h.caller_id)
        d2 == WriteField(d1, NameLatching \o <<EQ>> \o FormatBool(h.latching))
        d3 == WriteField(d2, NameMd5 \o <<EQ>> \o h.md5sum)
        d4 == WriteField(d3, NameMsgDef \o <<EQ>> \o h.msg_definition)
        d5 == WriteField(d4, NameTopic \o <<EQ>> \o h.topic)
        d6 == IF to_publisher
              THEN WriteField(d5, NameNoDelay \o <<EQ>> \o FormatBool(h.tcp_nodelay))
              ELSE d5
        d7 == WriteField(d6, NameType \o <<EQ>> \o h.topic_type)
        total_length == ToLeBytes(AsU32(Len(d7) - 4))
    IN  [idx \in 1..Len(d7) |-> IF idx <= 4 THEN total_length[idx] ELSE d7[idx]]

ToBytes(h, to_publisher) ==
    LET d0 == WriteU32(<<>>, U32Zero)
        d1 == WriteField(d0, NameCallerId \o <<EQ>> \o h.caller_id)
        d2 == WriteField(d1, NameLatching \o <<EQ>> \o FormatBool(h.latching))
        d3 == WriteField(d2, NameMd5 \o <<EQ>> \o h.md5sum)
        d4 == WriteField(d3, NameMsgDef \o <<EQ>> \o h.msg_definition)
        d5 == IF to_publisher
              THEN WriteField(d4, NameNoDelay \o <<EQ>> \o FormatBool(h.tcp_nodelay))
              ELSE d4
        d6 == WriteField(d5, NameTopic \o <<EQ>> \o h.topic)
        d7 == WriteField(d6, NameType \o <<EQ>> \o h.topic_type)
        total_length == ToLeBytes(AsU32(Len(d7) - 4))
    IN  [idx \in 1..Len(d7) |-> IF idx <= 4 THEN total_length[idx] ELSE d7[idx]]

----------------------------------------------------------------------------
(* The codec calls, step by step *)

(* header.to_bytes(to_publisher).unwrap(), as test_header_read_write calls it *)
ToBytesCall ==
    /\ pc = "to_bytes"
    /\ header_data' = ToBytes(src.h, src.to_publisher)
    /\ pc' = "from_bytes"
    /\ UNCHANGED <<src, input, len, header, result>>
    /\ UNCHANGED util_vars

(* from_bytes -> parse: the outer length and the default header *)
ParseStart ==
    /\ pc = "from_bytes"
    /\ LET l == LeU32(header_data, 0) IN
       IF l.ok
       THEN /\ input' = l.pos
            /\ len' = l.val
            /\ header' = DefaultHeader
            /\ pc' = "loop"
            /\ result' = result
       ELSE /\ result' = Err(l.code, l.pos)
            /\ pc' = "done"
            /\ UNCHANGED <<input, len, header>>
    /\ UNCHANGED <<src, header_data>>
    /\ UNCHANGED util_vars

(* one iteration of `while len > 0` *)
ParseField ==
    /\ pc = "loop"
    /\ len # U32Zero
    /\ LET step == LoopBody(header_data, input, len, header) IN
       IF step.kind = "cont"
       THEN /\ input' = step.input
            /\ len' = step.len
            /\ header' = step.header
            /\ UNCHANGED <<pc, result>>
       ELSE /\ result' = Outcome(step)
            /\ pc' = "done"
            /\ header' = step.header
            /\ UNCHANGED <<input, len>>
    /\ UNCHANGED <<src, header_data>>
    /\ UNCHANGED util_vars

(* the loop is left with len = 0: Ok((input, header)), mapped to the header *)
ParseReturn ==
    /\ pc = "loop"
    /\ len = U32Zero
    /\ result' = Ok(header)
    /\ pc' = "done"
    /\ UNCHANGED <<src, header_data, input, len, header>>
    /\ UNCHANGED util_vars

----------------------------------------------------------------------------
(* Inputs *)

MaxTextLen == 2

SeqsUpTo(S, n) == UNION {[1..k -> S] : k \in 0..n}

(* Texts of a header (Rust strings, so valid UTF-8): the empty text, runs of *)
(* '=' up to MaxTextLen, and "a=\u{e9}" (a multi-byte character after an '=') *)
SampleText == <<97, EQ, 195, 169>>
Texts == {t \in SeqsUpTo({EQ}, MaxTextLen) \cup {SampleText} : FromUtf8Ok(t)}

Headers ==
    [caller_id : Texts, latching : BOOLEAN, msg_definition : Texts, md5sum : Texts,
     topic : Texts, topic_type : Texts, tcp_nodelay : BOOLEAN]

CodecIdle ==
    /\ src = [kind |-> "none"]
    /\ header_data = <<>>
    /\ input = 0
    /\ len = U32Zero
    /\ header = DefaultHeader
    /\ pc = "idle"
    /\ result = NoResult

None == [some |-> FALSE, name |-> ""]
Some(n) == [some |-> TRUE, name |-> n]

UtilIdle ==
    /\ e = [absolute |-> TRUE, comps |-> <<>>]
    /\ marked = {}
    /\ anc = 0
    /\ package_name = None
    /\ upc = "idle"
    /\ uresult = [kind |-> "none", name |-> ""]

InitRoundTrip ==
    /\ src \in [kind : {"header"}, h : Headers, to_publisher : BOOLEAN]
    /\ header_data = <<>>
    /\ input = 0
    /\ len = U32Zero
    /\ header = DefaultHeader
    /\ pc = "to_bytes"
    /\ result = NoResult
    /\ UtilIdle

NextRoundTrip == ToBytesCall \/ ParseStart \/ ParseField \/ ParseReturn

SpecRoundTrip == InitRoundTrip /\ [][NextRoundTrip]_vars

----------------------------------------------------------------------------
(* Wire headers as a peer frames them: field records with exact lengths *)

MaxFields == 2

RECURSIVE FrameRecords(_)
FrameRecords(recs) ==
    IF recs = <<>> THEN <<>>
    ELSE LET payload == Head(recs).name \o <<EQ>> \o Head(recs).value IN
         ToLeBytes(AsU32(Len(payload))) \o payload \o FrameRecords(Tail(recs))

Frame(recs) == ToLeBytes(AsU32(Len(FrameRecords(recs)))) \o FrameRecords(recs)

Rec(name, value) == [name |-> name, value |-> value]

TextNames == {NameCallerId, NameMsgDef, NameMd5, NameTopic, NameType}
BoolNames == {NameLatching, NameNoDelay}
KnownNames == TextNames \cup BoolNames

(* "" and "Topic" (the case differs) are not recognised *)
UnknownNames == {<<>>, <<84, 111, 112, 105, 99>>}

(* "", "0", "1", "00", "false", a non-ASCII text *)
BoolTexts == {<<>>, <<48>>, <<49>>, <<48, 48>>, <<102, 97, 108, 115, 101>>, <<195, 169>>}

(* not UTF-8: a lone 0xFF, a lead byte without its continuation, an *)
(* overlong encoding, a surrogate                                   *)
BadBytes == {<<255>>, <<97, 195>>, <<192, 128>>, <<237, 160, 128>>}

RecordPool ==
    {Rec(n, v) : n \in TextNames, v \in {<<>>, SampleText}}
    \cup {Rec(n, v) : n \in BoolNames, v \in BoolTexts}
    \cup {Rec(n, v) : n \in UnknownNames, v \in {<<>>, <<48>>}}
    \cup {Rec(<<255>>, <<>>), Rec(NameTopic, <<97, 195>>), Rec(<<120>>, <<255>>),
          Rec(<<192, 128>>, <<48>>), Rec(NameMd5, <<237, 160, 128>>)}

(* the six records of test_header_parse's valid_header *)
TestRecords ==
    << Rec(NameMsgDef, <<115, 116, 114, 105, 110, 103, 32, 100, 97, 116, 97, 10, 10>>),
       Rec(NameCallerId, <<47, 114, 111, 115, 116, 111, 112, 105, 99, 95, 52, 55, 54, 55,
                           95, 49, 51, 49, 54, 57, 49, 50, 55, 52, 49, 53, 53, 55>>),
       Rec(NameLatching, <<49>>),
       Rec(NameMd5, <<57, 57, 50, 99, 101, 56, 97, 49, 54, 56, 55, 99, 101, 99, 56, 99,
                      56, 98, 100, 56, 56, 51, 101, 99, 55, 51, 99, 97, 52, 49, 100, 49>>),
       Rec(NameTopic, <<47, 99, 104, 97, 116, 116, 101, 114>>),
       Rec(NameType, <<115, 116, 100, 95, 109, 115, 103, 115, 47, 83, 116, 114, 105, 110, 103>>) >>

(* valid_header of test_header_parse: 180 bytes *)
ValidHeader ==
    <<
       176, 0, 0, 0, 32, 0, 0, 0, 109, 101, 115, 115, 97, 103, 101, 95, 100, 101,
       102, 105, 110, 105, 116, 105, 111, 110, 61, 115, 116, 114, 105, 110, 103, 32, 100, 97,
       116, 97, 10, 10, 37, 0, 0, 0, 99, 97, 108, 108, 101, 114, 105, 100, 61, 47,
       114, 111, 115, 116, 111, 112, 105, 99, 95, 52, 55, 54, 55, 95, 49, 51, 49, 54,
       57, 49, 50, 55, 52, 49, 53, 53, 55, 10, 0, 0, 0, 108, 97, 116, 99, 104,
       105, 110, 103, 61, 49, 39, 0, 0, 0, 109, 100, 53, 115, 117, 109, 61, 57, 57,
       50, 99, 101, 56, 97, 49, 54, 56, 55, 99, 101, 99, 56, 99, 56, 98, 100, 56,
       56, 51, 101, 99, 55, 51, 99, 97, 52, 49, 100, 49, 14, 0, 0, 0, 116, 111,
       112, 105, 99, 61, 47, 99, 104, 97, 116, 116, 101, 114, 20, 0, 0, 0, 116, 121,
       112, 101, 61, 115, 116, 100, 95, 109, 115, 103, 115, 47, 83, 116, 114, 105, 110, 103
    >>

InitFields ==
    /\ src \in {[kind |-> "fields", recs |-> r] :
                    r \in SeqsUpTo(RecordPool, MaxFields) \cup {TestRecords}}
    /\ header_data = IF src.recs = TestRecords THEN ValidHeader ELSE Frame(src.recs)
    /\ input = 0
    /\ len = U32Zero
    /\ header = DefaultHeader
    /\ pc = "from_bytes"
    /\ result = NoResult
    /\ UtilIdle

NextDecode == ParseStart \/ ParseField \/ ParseReturn

SpecFields == InitFields /\ [][NextDecode]_vars

----------------------------------------------------------------------------
(* Wire bytes from a faulty or hostile peer: length prefixes that do not  *)
(* match their payloads, an outer length that matches nothing, and short  *)
(* raw buffers                                                            *)

MaxChunks == 2
MaxRawLen == 6

Huge == [hi |-> Half - 1, lo |-> Half - 1]

LfPool == {AsU32(0), AsU32(2), AsU32(3), Huge}

(* "", "=", "x=", "xx", "x=y" *)
PayloadPool == {<<>>, <<EQ>>, <<120, EQ>>, <<120, 120>>, <<120, EQ, 121>>}

ChunkPool == [lf : LfPool, payload : PayloadPool]

RECURSIVE ChunkBytes(_)
ChunkBytes(chunks) ==
    IF chunks = <<>> THEN <<>>
    ELSE ToLeBytes(Head(chunks).lf) \o Head(chunks).payload \o ChunkBytes(Tail(chunks))

RawBytes == {0, 1, EQ, 255}

ChunkInput(l, c) ==
    [kind |-> "chunks", l0 |-> l, chunks |-> c, bytes |-> ToLeBytes(l) \o ChunkBytes(c)]

RawInput(r) == [kind |-> "raw", l0 |-> U32Zero, chunks |-> <<>>, bytes |-> r]

InitMalformed ==
    /\ \/ \E c \in SeqsUpTo(ChunkPool, MaxChunks) :
             \E k \in 0..(Len(ChunkBytes(c)) + 2) :
                 src = ChunkInput(IF k = Len(ChunkBytes(c)) + 2 THEN Huge ELSE AsU32(k), c)
       \/ \E r \in SeqsUpTo(RawBytes, MaxRawLen) : src = RawInput(r)
    /\ header_data = src.bytes
    /\ input = 0
    /\ len = U32Zero
    /\ header = DefaultHeader
    /\ pc = "from_bytes"
    /\ result = NoResult
    /\ UtilIdle

SpecMalformed == InitMalformed /\ [][NextDecode]_vars

----------------------------------------------------------------------------
(* util.rs: find_package_from_path(e).  The ancestor of e with k components *)
(* is e itself for k = Len(e.comps) and, for k = 0, "/" (an absolute path)  *)
(* or the empty path (a relative one); marked holds the k whose ancestor    *)
(* has a package.xml in it.                                                 *)

MaxDepth == 3

DirNames == {"a", "b"}

(* dir.into_iter().last(): the last component, "/" for the root, none for *)
(* the empty path                                                         *)
LastComponent(path, k) ==
    IF k > 0 THEN Some(path.comps[k])
    ELSE IF path.absolute THEN Some("/")
    ELSE None

(* one iteration of `for dir in e.ancestors()` *)
ForAncestor ==
    /\ upc = "for"
    /\ anc > 0
    /\ IF (anc - 1) \in marked
       THEN IF LastComponent(e, anc - 1).some
            THEN /\ package_name' = LastComponent(e, anc - 1)
                 /\ anc' = anc - 1
                 /\ UNCHANGED <<upc, uresult>>
            ELSE /\ uresult' = [kind |-> "panic", name |-> "unwrap"]
                 /\ upc' = "done"
                 /\ UNCHANGED <<anc, package_name>>
       ELSE /\ anc' = anc - 1
            /\ UNCHANGED <<package_name, upc, uresult>>
    /\ UNCHANGED <<e, marked>>
    /\ UNCHANGED codec_vars

(* after the loop: panic on None, else package_name.unwrap() *)
AfterAncestors ==
    /\ upc = "for"
    /\ anc = 0
    /\ uresult' = IF package_name.some
                  THEN [kind |-> "ok", name |-> package_name.name]
                  ELSE [kind |-> "panic", name |-> "no package"]
    /\ upc' = "done"
    /\ UNCHANGED <<e, marked, anc, package_name>>
    /\ UNCHANGED codec_vars

InitUtil ==
    /\ e \in [absolute : BOOLEAN, comps : SeqsUpTo(DirNames, MaxDepth)]
    /\ marked \in SUBSET (0..Len(e.comps))
    /\ anc = Len(e.comps) + 1
    /\ package_name = None
    /\ upc = "for"
    /\ uresult = [kind |-> "none", name |-> ""]
    /\ CodecIdle

NextUtil == ForAncestor \/ AfterAncestors

SpecUtil == InitUtil /\ [][NextUtil]_vars

----------------------------------------------------------------------------
(* Everything together *)

Init == InitRoundTrip \/ InitFields \/ InitMalformed \/ InitUtil

Next == ToBytesCall \/ ParseStart \/ ParseField \/ ParseReturn \/ ForAncestor \/ AfterAncestors

Spec == Init /\ [][Next]_vars

----------------------------------------------------------------------------
(* Claims on the round trip and the wire layout (SpecRoundTrip) *)

(* C1: decoding the encoding of h gives back h in every field, except that *)
(* tcp_nodelay comes back false when to_publisher is false; the decode      *)
(* succeeds, also for empty texts and texts containing '='.                 *)
C1_RoundTrip ==
    (pc = "done" /\ src.kind = "header") =>
        /\ result.kind = "ok"
        /\ result.header =
               [src.h EXCEPT !.tcp_nodelay = IF src.to_publisher THEN @ ELSE FALSE]

C1_Witness ==
    /\ pc = "done"
    /\ src.kind = "header"
    /\ ~src.to_publisher
    /\ src.h.tcp_nodelay
    /\ src.h.caller_id = <<EQ>>
    /\ src.h.topic = <<>>
    /\ src.h.md5sum = SampleText
    /\ result.kind = "ok"
    /\ ~result.header.tcp_nodelay

(* the layout the claim describes, written out byte by byte *)
Le4(n) == <<n % 256, (n \div 256) % 256, (n \div 65536) % 256, (n \div 16777216) % 256>>
WireRecord(name, value) == Le4(Len(name) + 1 + Len(value)) \o name \o <<61>> \o value
WireBool(x) == IF x THEN <<49>> ELSE <<48>>
WireBody(h, to_publisher) ==
    WireRecord(NameCallerId, h.caller_id)
    \o WireRecord(NameLatching, WireBool(h.latching))
    \o WireRecord(NameMd5, h.md5sum)
    \o WireRecord(NameMsgDef, h.msg_definition)
    \o (IF to_publisher THEN WireRecord(NameNoDelay, WireBool(h.tcp_nodelay)) ELSE <<>>)
    \o WireRecord(NameTopic, h.topic)
    \o WireRecord(NameType, h.topic_type)

(* C7: to_bytes' output is the 4-byte little-endian total length, then the *)
(* records callerid, latching, md5sum, message_definition, tcp_nodelay      *)
(* (only to a publisher), topic, type, each a 4-byte little-endian length   *)
(* and its name=value text, booleans as 1 or 0; the total length is the     *)
(* output length minus 4.                                                   *)
C7_WireLayout ==
    (src.kind = "header" /\ pc # "to_bytes") =>
        /\ header_data = Le4(Len(WireBody(src.h, src.to_publisher)))
                              \o WireBody(src.h, src.to_publisher)
        /\ SubSeq(header_data, 1, 4) = Le4(Len(header_data) - 4)

C7_Witness ==
    /\ src.kind = "header"
    /\ pc = "from_bytes"
    /\ src.to_publisher
    /\ src.h.tcp_nodelay
    /\ ~src.h.latching
    /\ src.h.topic_type = SampleText
    /\ Len(header_data) > 4

----------------------------------------------------------------------------
(* Claims on decoding framed headers (SpecFields) *)

(* the records whose name or value is one of the byte sequences that are *)
(* not UTF-8                                                             *)
HasBadBytes(recs) ==
    \E i \in DOMAIN recs : recs[i].name \in BadBytes \/ recs[i].value \in BadBytes

WellFormed(recs) == ~HasBadBytes(recs)

Occurs(recs, n) == \E i \in DOMAIN recs : recs[i].name = n

LastValue(recs, n) ==
    LET i == CHOOSE j \in DOMAIN recs :
                 recs[j].name = n /\ \A k \in DOMAIN recs : recs[k].name = n => k <= j
    IN  recs[i].value

Without(recs, i) == SubSeq(recs, 1, i - 1) \o SubSeq(recs, i + 1, Len(recs))

DecodedFields == pc = "done" /\ src.kind = "fields"

(* C5: a framed header with a field record whose name or value is not *)
(* valid UTF-8 decodes to a FormatError, never to a header.            *)
C5_InvalidUtf8 ==
    (DecodedFields /\ HasBadBytes(src.recs)) => result.kind = "err"

C5_Witness ==
    /\ DecodedFields
    /\ Len(src.recs) = 2
    /\ src.recs[1] = Rec(NameCallerId, SampleText)
    /\ src.recs[2] = Rec(NameTopic, <<97, 195>>)
    /\ result.kind = "err"
    /\ result.code = "AlphaNumeric"

(* C6: a well-formed field record with an unrecognised name, anywhere in a *)
(* well-formed header, does not make the decode fail and changes no field: *)
(* the result is that of the header without the record.                    *)
C6_UnknownField ==
    (DecodedFields /\ WellFormed(src.recs)) =>
        \A i \in DOMAIN src.recs :
            src.recs[i].name \notin KnownNames =>
                /\ result.kind = "ok"
                /\ result = FromBytes(Frame(Without(src.recs, i)))

C6_Witness ==
    /\ DecodedFields
    /\ Len(src.recs) = 2
    /\ src.recs[1] = Rec(<<84, 111, 112, 105, 99>>, <<48>>)
    /\ src.recs[2] = Rec(NameLatching, <<49>>)
    /\ result.kind = "ok"
    /\ result.header = [DefaultHeader EXCEPT !.latching = TRUE]

ExpectText(recs, n) == IF Occurs(recs, n) THEN LastValue(recs, n) ELSE <<>>
ExpectBool(recs, n) == IF Occurs(recs, n) THEN LastValue(recs, n) # <<48>> ELSE FALSE

DistinctNames(recs) ==
    \A i, j \in DOMAIN recs : recs[i].name = recs[j].name => i = j

(* C9: a well-formed header decodes per name: each recognised name takes *)
(* the value of its last record, an absent name leaves the default, and  *)
(* records with distinct names decode the same in every order.           *)
C9_PerName ==
    (DecodedFields /\ WellFormed(src.recs)) =>
        /\ result.kind = "ok"
        /\ result.header.caller_id = ExpectText(src.recs, NameCallerId)
        /\ result.header.msg_definition = ExpectText(src.recs, NameMsgDef)
        /\ result.header.md5sum = ExpectText(src.recs, NameMd5)
        /\ result.header.topic = ExpectText(src.recs, NameTopic)
        /\ result.header.topic_type = ExpectText(src.recs, NameType)
        /\ result.header.latching = ExpectBool(src.recs, NameLatching)
        /\ result.header.tcp_nodelay = ExpectBool(src.recs, NameNoDelay)
        /\ DistinctNames(src.recs) =>
               \A q \in Permutations(DOMAIN src.recs) :
                   FromBytes(Frame([i \in DOMAIN src.recs |-> src.recs[q[i]]])) = result

C9_Witness ==
    /\ DecodedFields
    /\ Len(src.recs) = 2
    /\ src.recs[1] = Rec(NameTopic, SampleText)
    /\ src.recs[2] = Rec(NameTopic, <<>>)
    /\ result.kind = "ok"
    /\ result.header = DefaultHeader

(* C10: latching and tcp_nodelay decode to false exactly when the value *)
(* text is "0"; any other text, the empty one included, gives true and  *)
(* is no error.                                                         *)
C10_LenientBool ==
    (DecodedFields /\ WellFormed(src.recs)) =>
        /\ Occurs(src.recs, NameLatching) =>
               /\ result.kind = "ok"
               /\ (result.header.latching = FALSE) <=> (LastValue(src.recs, NameLatching) = <<48>>)
        /\ Occurs(src.recs, NameNoDelay) =>
               /\ result.kind = "ok"
               /\ (result.header.tcp_nodelay = FALSE) <=> (LastValue(src.recs, NameNoDelay) = <<48>>)

C10_Witness ==
    /\ DecodedFields
    /\ Len(src.recs) = 2
    /\ src.recs[1] = Rec(NameLatching, <<102, 97, 108, 115, 101>>)
    /\ src.recs[2] = Rec(NameNoDelay, <<48>>)
    /\ result.kind = "ok"
    /\ result.header.latching
    /\ ~result.header.tcp_nodelay

----------------------------------------------------------------------------
(* Claims on decoding malformed bytes (SpecMalformed) *)

(* the u32 on the wire at offset p *)
Wire32(b, p) == [hi |-> b[p + 3] + 256 * b[p + 4], lo |-> b[p + 1] + 256 * b[p + 2]]

U32Less(a, b) == a.hi < b.hi \/ (a.hi = b.hi /\ a.lo < b.lo)

(* a field record starts at the slice: the loop is about to read it *)
AtField == pc = "loop" /\ len # U32Zero /\ Len(header_data) - input >= 4

(* 4 + Lf > n, for u32 Lf and n *)
Overruns(lf, n) == U32Less(n, AsU32(4)) \/ U32Less(CheckedSub(n, AsU32(4)).val, lf)

(* the counter is L0 less the bytes of the field records parsed so far *)
C2_Counter ==
    (pc = "loop" \/ (pc = "done" /\ result.kind = "ok")) =>
        /\ input >= 4
        /\ input <= Len(header_data)
        /\ ~U32Less(Wire32(header_data, 0), AsU32(input - 4))
        /\ len = CheckedSub(Wire32(header_data, 0), AsU32(input - 4)).val
        /\ result.kind = "ok" => Wire32(header_data, 0) = AsU32(input - 4)

C2_Step ==
    (AtField /\ Overruns(Wire32(header_data, input), len)) =>
        /\ pc' = "done"
        /\ result'.kind = "err"
        /\ ParseHeaderField(header_data, input).kind = "ok" => result' = Err("Count", input)

(* C2: a field record whose 4 + Lf bytes exceed the remaining-length    *)
(* counter makes the decode fail; a header is returned only when the    *)
(* parsed records total exactly L0 bytes, and nothing beyond them is    *)
(* parsed.                                                              *)
C2_OuterLength == [](C2_Counter) /\ [][C2_Step]_vars

C2_Witness ==
    /\ pc = "done"
    /\ src.kind = "chunks"
    /\ Len(src.chunks) = 2
    /\ src.chunks[1] = [lf |-> AsU32(2), payload |-> <<120, EQ>>]
    /\ src.chunks[2] = [lf |-> AsU32(3), payload |-> <<120, EQ, 121>>]
    /\ src.l0 = AsU32(12)
    /\ input = 10
    /\ result = Err("Count", 10)

FirstEq(b, p) == CHOOSE i \in (p + 1)..Len(b) : b[i] = EQ /\ \A k \in (p + 1)..(i - 1) : b[k] # EQ

C3_Step ==
    (/\ AtField
     /\ \E i \in (input + 5)..Len(header_data) : header_data[i] = EQ
     /\ U32Less(Wire32(header_data, input),
                AsU32(FirstEq(header_data, input + 4) - (input + 4))))
    => /\ pc' = "done"
       /\ result' = Err("LengthValue", FirstEq(header_data, input + 4))

(* C3: a field record whose Lf is smaller than len(name) + 1, the name   *)
(* running to the first '=' after the length prefix wherever it lies,    *)
(* makes the decode fail at the byte after that '=': no value is taken.  *)
C3_FieldUnderflow == [][C3_Step]_vars

C3_Witness ==
    /\ pc = "done"
    /\ src.kind = "chunks"
    /\ Len(src.chunks) = 2
    /\ src.chunks[1] = [lf |-> AsU32(2), payload |-> <<120, 120>>]
    /\ src.chunks[2] = [lf |-> AsU32(2), payload |-> <<120, EQ>>]
    /\ src.l0 = AsU32(12)
    /\ result = Err("LengthValue", 16)

C4_Safe ==
    /\ result.kind \in {"none", "ok", "err"}
    /\ pc = "done" <=> result.kind # "none"
    /\ input <= Len(header_data)
    /\ result.at <= Len(header_data)
    /\ pc \in {"from_bytes", "loop", "done"}
    /\ (pc = "done" /\ Len(header_data) < 4) => result.kind = "err"
    /\ (pc = "done" /\ Len(header_data) >= 4
          /\ U32Less(AsU32(Len(header_data) - 4), Wire32(header_data, 0))) => result.kind = "err"

C4_Step ==
    /\ (pc = "loop" /\ pc' = "loop") => (input' > input /\ input' <= Len(header_data))
    /\ (AtField /\ U32Less(AsU32(Len(header_data) - input - 4), Wire32(header_data, input)))
           => (pc' = "done" /\ result'.kind = "err")

(* C4: from_bytes ends on every byte sequence with a header or a         *)
(* FormatError, never a panic, never past the end of the buffer (each    *)
(* loop iteration moves the slice forward inside the buffer); an outer   *)
(* or field length beyond the bytes that remain gives a FormatError.     *)
C4_Total == [](C4_Safe) /\ [][C4_Step]_vars

C4_Witness ==
    /\ pc = "done"
    /\ src.kind = "chunks"
    /\ Len(src.chunks) = 1
    /\ src.chunks[1] = [lf |-> Huge, payload |-> <<120, EQ, 121>>]
    /\ src.l0 = Huge
    /\ result = Err("Eof", 10)

----------------------------------------------------------------------------
(* Claim on the package lookup (SpecUtil) *)

Nearest == CHOOSE k \in marked : \A j \in marked : j <= k

(* C8: find_package_from_path returns the name of the nearest ancestor   *)
(* holding a package.xml, also when several ancestors hold one, and      *)
(* panics when none does (stated here for absolute paths, where every    *)
(* ancestor has a name).                                                 *)
C8_NearestPackage ==
    (upc = "done" /\ e.absolute) =>
        IF marked = {}
        THEN uresult.kind = "panic"
        ELSE uresult = [kind |-> "ok", name |-> LastComponent(e, Nearest).name]

====
